---- MODULE Spec2Model ----
(***************************************************************************)
(* Request telemetry pipeline of src/prom.py: PrometheusInstrumentator.    *)
(* instrument_app, PromMetricsMiddleware.dispatch, the two metric handlers *)
(* (http_requests_total, latency), _get_registry and the /metrics route.   *)
(*                                                                         *)
(* Strings the code takes apart (str(status_code)[0], method.upper()) are  *)
(* sequences of one-character strings; opaque strings are TLA+ strings.    *)
(* A Python value that may be None is a sequence of length 0 or 1.         *)
(* Durations are in milliseconds.                                          *)
(***************************************************************************)
EXTENDS Integers, Sequences, FiniteSets, TLC

VARIABLES
    pmd,         \* os.environ 'prometheus_multiproc_dir': "absent", "dir" (an existing directory), "notdir"
    setup,       \* outcome of the calls of instrument_app so far: "new", "ok", "raised"
    err,         \* the exception instrument_app raised: "none", "config", "duplicate"
    middleware,  \* app.user_middleware: one handler list per installed PromMetricsMiddleware
    routes,      \* routes registered on the app
    regmode,     \* the registry the /metrics closure holds: "unset", "default", "multiprocess"
    collectors,  \* metric names registered in the process-wide REGISTRY
    counter,     \* per worker process: http_requests_total, label-tuple -> value
    hist,        \* per worker process: http_request_duration_seconds, label-tuple -> buckets, sum
    reqs,        \* the requests dispatched so far, each with the locals of its dispatch call
    now          \* time.time()

vars == <<pmd, setup, err, middleware, routes, regmode, collectors, counter, hist, reqs, now>>

appvars == <<pmd, setup, err, middleware, routes, regmode, collectors>>

----------------------------------------------------------------------------
(* Bounds *)

\* requests dispatched under Spec
MaxReq == 2

\* requests dispatched, one at a time, under SpecRecord
MaxRecReq == 2

\* scrapes dispatched under SpecMerge
MaxScrapes == 1

\* requests dispatched under SpecFault
MaxFaultReq == 2

\* requests dispatched under SpecIsolation
MaxIsoReq == 2

----------------------------------------------------------------------------
(* Python values *)

None == <<>>

Some(v) == <<v>>

Digits == <<"0", "1", "2", "3", "4", "5", "6", "7", "8", "9">>

RECURSIVE StrInt(_)
\* str(n) of a non-negative int: its decimal digits, most significant first
StrInt(n) == IF n < 10 THEN <<Digits[n + 1]>>
             ELSE Append(StrInt(n \div 10), Digits[(n % 10) + 1])

\* (mutant) an absent value labelled with the empty string
StrOptEmpty(v) == IF v = None THEN "" ELSE v[1]

\* str(v) of an optional string, as prometheus_client applies it to a label value
StrOpt(v) == IF v = None THEN "None" ELSE v[1]

LowerCase == <<"a", "b", "c", "d", "e", "f", "g", "h", "i", "j", "k", "l", "m",
               "n", "o", "p", "q", "r", "s", "t", "u", "v", "w", "x", "y", "z">>

UpperCase == <<"A", "B", "C", "D", "E", "F", "G", "H", "I", "J", "K", "L", "M",
               "N", "O", "P", "Q", "R", "S", "T", "U", "V", "W", "X", "Y", "Z">>

UpperChar(c) == IF \E i \in 1..Len(LowerCase) : LowerCase[i] = c
                THEN UpperCase[CHOOSE i \in 1..Len(LowerCase) : LowerCase[i] = c]
                ELSE c

\* (mutant) the method taken as it arrives
UpperForgotten(s) == s

\* str.upper()
Upper(s) == [i \in 1..Len(s) |-> UpperChar(s[i])]

\* request.headers.get(name): header names arrive lower-cased
HeadersGet(headers, name) == IF name \in DOMAIN headers THEN Some(headers[name]) ELSE None

----------------------------------------------------------------------------
(* ResponseInfo and the label-tuple *)

\* (mutant) the group taken from the last digit
StatusGroupLastDigit(status_code) ==
    <<StrInt(status_code)[Len(StrInt(status_code))], "x", "x">>

\* line 57: str(status_code)[0] + 'xx'
StatusGroup(status_code) == <<StrInt(status_code)[1], "x", "x">>

ResponseInfo(exec_time, headers, status_code, endpoint, method) ==
    [exec_time    |-> exec_time,
     headers      |-> headers,
     status_code  |-> status_code,
     status_group |-> StatusGroup(status_code),
     endpoint     |-> endpoint,
     method       |-> Upper(method)]

\* the labels dict of both handlers, each value through str() as labels() does
Labels(service_name, info) ==
    [service_name |-> service_name,
     status_code  |-> StrInt(info.status_code),
     status_group |-> info.status_group,
     endpoint     |-> info.endpoint,
     method       |-> info.method,
     uid          |-> StrOpt(HeadersGet(info.headers, "uid"))]

----------------------------------------------------------------------------
(* The two metrics (prometheus_client Counter and Histogram as the code uses them) *)

\* (mutant) the handler list with the latency handler first
METRIC_HANDLERS_LatencyFirst == <<"latency", "http_requests_total">>

\* lines 169-172: the handler factories, in the order they are listed
METRIC_HANDLERS == <<"http_requests_total", "latency">>

\* metric name each handler factory constructs and registers
MetricName(h) == IF h = "http_requests_total" THEN "http_requests_total"
                 ELSE "http_request_duration_seconds"

\* Histogram(...) is built without buckets=: the library's default upper
\* bounds, in milliseconds; bucket Len(UpperBounds) + 1 is +Inf
UpperBounds == <<5, 10, 25, 50, 75, 100, 250, 500, 750, 1000, 2500, 5000, 7500, 10000>>

NumBuckets == Len(UpperBounds) + 1

EmptyMetric == <<>>

ZeroHist == [buckets |-> [i \in 1..NumBuckets |-> 0], sum |-> 0]

\* (mutant) labels() that builds a new child on every call, dropping the old one
CounterLabelsFresh(m, key) == [t \in DOMAIN m \cup {key} |-> IF t = key THEN 0 ELSE m[t]]

\* METRIC.labels(**labels) of the counter: fetch the child or create it at 0
CounterLabels(m, key) == IF key \in DOMAIN m THEN m ELSE (key :> 0) @@ m

\* .inc(): an atomic add of 1 to the child's value
CounterInc(m, key) == [m EXCEPT ![key] = @ + 1]

\* METRIC.labels(**labels) of the histogram: fetch the child or create it empty
HistLabels(m, key) == IF key \in DOMAIN m THEN m ELSE (key :> ZeroHist) @@ m

\* the bucket an observation falls in: the first whose upper bound is >= amount
BucketOf(amount) ==
    IF \E i \in 1..Len(UpperBounds) : amount <= UpperBounds[i]
    THEN CHOOSE i \in 1..Len(UpperBounds) :
             /\ amount <= UpperBounds[i]
             /\ \A j \in 1..(i - 1) : amount > UpperBounds[j]
    ELSE NumBuckets

\* .observe(amount): sum += amount, the amount's bucket += 1
HistObserve(m, key, amount) ==
    [m EXCEPT ![key] = [buckets |-> [@.buckets EXCEPT ![BucketOf(amount)] = @ + 1],
                        sum     |-> @.sum + amount]]

RECURSIVE Accumulate(_, _)
\* cumulative count up to bucket i
Accumulate(buckets, i) == IF i = 0 THEN 0 ELSE Accumulate(buckets, i - 1) + buckets[i]

\* a histogram child as exported: cumulative buckets, count, sum
Exposition(cell) ==
    [bucket |-> [i \in 1..NumBuckets |-> Accumulate(cell.buckets, i)],
     count  |-> Accumulate(cell.buckets, NumBuckets),
     sum    |-> cell.sum]

----------------------------------------------------------------------------
(* generate_latest(registry) *)

ValueAt(m, key) == IF key \in DOMAIN m THEN m[key] ELSE 0

HistAt(m, key) == IF key \in DOMAIN m THEN m[key] ELSE ZeroHist

\* (mutant) a fold that keeps the value of the last shard holding the tuple
AddCounterShardLast(acc, shard) ==
    [t \in DOMAIN acc \cup DOMAIN shard |->
        IF t \in DOMAIN shard THEN shard[t] ELSE acc[t]]

\* (mutant) a fold that adds the sums but keeps the last shard's buckets
AddHistShardLast(acc, shard) ==
    [t \in DOMAIN acc \cup DOMAIN shard |->
        [buckets |-> IF t \in DOMAIN shard THEN shard[t].buckets ELSE acc[t].buckets,
         sum     |-> HistAt(acc, t).sum + HistAt(shard, t).sum]]

\* one shard folded into the counter samples read so far: samples[key] += value
AddCounterShard(acc, shard) ==
    [t \in DOMAIN acc \cup DOMAIN shard |-> ValueAt(acc, t) + ValueAt(shard, t)]

\* one shard folded into the histogram samples: per bucket and for the sum
AddHistShard(acc, shard) ==
    [t \in DOMAIN acc \cup DOMAIN shard |->
        [buckets |-> [i \in 1..NumBuckets |->
                         HistAt(acc, t).buckets[i] + HistAt(shard, t).buckets[i]],
         sum     |-> HistAt(acc, t).sum + HistAt(shard, t).sum]]

RECURSIVE MergeCounters(_, _, _)
\* MultiProcessCollector.collect over the counter shard files of the directory
MergeCounters(shards, files, acc) ==
    IF files = {} THEN acc
    ELSE LET f == CHOOSE x \in files : TRUE
         IN  MergeCounters(shards, files \ {f}, AddCounterShard(acc, shards[f]))

RECURSIVE MergeHists(_, _, _)
\* MultiProcessCollector.collect over the histogram shard files of the directory
MergeHists(shards, files, acc) ==
    IF files = {} THEN acc
    ELSE LET f == CHOOSE x \in files : TRUE
         IN  MergeHists(shards, files \ {f}, AddHistShard(acc, shards[f]))

NoBody == [counter |-> EmptyMetric, hist |-> EmptyMetric]

\* the payload of a scrape served by process p: its own registry in
\* single-process mode, the merge of every shard in multiprocess mode
GenerateLatest(mode, p, cnt, hst) ==
    IF mode = "multiprocess"
    THEN LET merged == MergeHists(hst, DOMAIN hst, EmptyMetric)
         IN  [counter |-> MergeCounters(cnt, DOMAIN cnt, EmptyMetric),
              hist    |-> [t \in DOMAIN merged |-> Exposition(merged[t])]]
    ELSE [counter |-> cnt[p],
          hist    |-> [t \in DOMAIN hst[p] |-> Exposition(hst[p][t])]]

----------------------------------------------------------------------------
(* Inputs *)

Procs == {1, 2}

SERVICE == "svc"

NoHeaders == <<>>

GET == <<"G", "E", "T">>

MetricsRoute == [path |-> "/metrics", methods |-> {GET}]

\* What a specification draws its requests from: the worker a request
\* lands on, its path, method and headers, the status the application
\* answers with, the readings of the clock, how many requests are
\* dispatched and how many of them may be in flight together.

\* concurrent requests and scrapes over both workers
MainInputs ==
    [procs    |-> Procs,
     paths    |-> {"/items", "/metrics"},
     methods  |-> {GET},
     headers  |-> {NoHeaders},
     statuses |-> {200},
     times    |-> {0, 200},
     maxReq   |-> MaxReq,
     inflight |-> MaxReq]

\* one request at a time, over methods in every case, status codes of the
\* final classes and requests with and without the uid header
RecordInputs ==
    [procs    |-> {1},
     paths    |-> {"/items"},
     methods  |-> {GET, <<"g", "e", "t">>, <<"P", "o", "s", "t">>},
     headers  |-> {NoHeaders, [uid |-> "u1"]},
     statuses |-> {204, 302, 404, 503},
     times    |-> {0},
     maxReq   |-> MaxRecReq,
     inflight |-> 1]

\* requests and scrapes on one worker, the requests answered 200 or 404
FaultInputs ==
    [procs    |-> {1},
     paths    |-> {"/items", "/metrics"},
     methods  |-> {GET},
     headers  |-> {NoHeaders},
     statuses |-> {200, 404},
     times    |-> {0},
     maxReq   |-> MaxFaultReq,
     inflight |-> MaxFaultReq]

\* requests on one worker, two at a time in flight, that differ in path,
\* uid header, status and arrival time
IsolationInputs ==
    [procs    |-> {1},
     paths    |-> {"/items", "/orders"},
     methods  |-> {GET},
     headers  |-> {NoHeaders, [uid |-> "u1"]},
     statuses |-> {200, 404},
     times    |-> {0, 200},
     maxReq   |-> MaxIsoReq,
     inflight |-> 2]

\* scrapes only, over shards filled by earlier traffic
MergeInputs ==
    [procs    |-> Procs,
     paths    |-> {"/metrics"},
     methods  |-> {GET},
     headers  |-> {NoHeaders},
     statuses |-> {200},
     times    |-> {0, 200},
     maxReq   |-> MaxScrapes,
     inflight |-> MaxScrapes]

----------------------------------------------------------------------------
(* Setup *)

Init ==
    /\ pmd \in {"absent", "dir", "notdir"}
    /\ setup = "new"
    /\ err = "none"
    /\ middleware = <<>>
    /\ routes = <<>>
    /\ regmode = "unset"
    /\ collectors = {}
    /\ counter = [p \in Procs |-> EmptyMetric]
    /\ hist = [p \in Procs |-> EmptyMetric]
    /\ reqs = <<>>
    /\ now = 0

\* (mutant) the directory check left out
GetRegistryUnchecked(dir) == IF dir = "absent" THEN "default" ELSE "multiprocess"

\* _get_registry(): "raise" stands for the ValueError
GetRegistry(dir) ==
    IF dir = "absent" THEN "default"
    ELSE IF dir = "dir" THEN "multiprocess"
    ELSE "raise"

\* (mutant) a registry that takes a name it already holds
RegisterAllReplacing(handlers, i, registered) ==
    [registered |-> registered \cup {MetricName(handlers[k]) : k \in 1..Len(handlers)},
     raised     |-> FALSE]

\* the handler factories called in order ([m(service_name) for m in
\* METRIC_HANDLERS]): each constructor registers its metric in REGISTRY and
\* raises on a name already there; the names registered and whether one raised
RECURSIVE RegisterAll(_, _, _)
RegisterAll(handlers, i, registered) ==
    IF i > Len(handlers) THEN [registered |-> registered, raised |-> FALSE]
    ELSE IF MetricName(handlers[i]) \in registered
         THEN [registered |-> registered, raised |-> TRUE]
         ELSE RegisterAll(handlers, i + 1, registered \cup {MetricName(handlers[i])})

\* PrometheusInstrumentator.instrument_app(app, SERVICE), called before the
\* app serves; an exception leaves the effects of the lines already run
InstrumentApp ==
    /\ setup \in {"new", "ok"}
    /\ reqs = <<>>
    /\ LET made     == RegisterAll(METRIC_HANDLERS, 1, collectors)
           registry == GetRegistry(pmd)
       IN  /\ collectors' = made.registered
           /\ IF made.raised
              THEN /\ setup' = "raised"
                   /\ err' = "duplicate"
                   /\ UNCHANGED <<middleware, routes, regmode>>
              ELSE /\ middleware' = <<METRIC_HANDLERS>> \o middleware
                   /\ IF registry = "raise"
                      THEN /\ setup' = "raised"
                           /\ err' = "config"
                           /\ UNCHANGED <<routes, regmode>>
                      ELSE /\ setup' = "ok"
                           /\ err' = "none"
                           /\ regmode' = registry
                           /\ routes' = Append(routes, MetricsRoute)
    /\ UNCHANGED <<pmd, counter, hist, reqs, now>>

----------------------------------------------------------------------------
(* PromMetricsMiddleware.dispatch, one action per step of a call *)

NoInfo == <<>>

\* where a dispatch call has ended: returned, left by an exception of
\* call_next or of a handler, cancelled
Finished == {"done", "raised", "handler_raised", "cancelled"}

\* line 49: start = time.time(), then call_next(request) is awaited.  The
\* app serves only once instrument_app has returned it.
Dispatch(in) ==
    /\ setup = "ok"
    /\ Len(reqs) < in.maxReq
    /\ Cardinality({r \in 1..Len(reqs) : reqs[r].pc \notin Finished}) < in.inflight
    /\ \E p \in in.procs, path \in in.paths, method \in in.methods, headers \in in.headers :
          reqs' = Append(reqs,
                     [proc    |-> p,
                      path    |-> path,
                      method  |-> method,
                      headers |-> headers,
                      metrics |-> middleware[1],
                      pc      |-> "call_next",
                      start   |-> now,
                      status  |-> 0,
                      body    |-> NoBody,
                      info    |-> NoInfo,
                      h       |-> 0,
                      log     |-> <<>>,
                      failed  |-> 0,
                      bad     |-> 0,
                      sent    |-> 0])
    /\ UNCHANGED <<appvars, counter, hist, now>>

\* whether the request is routed to the metrics() closure
IsScrape(rq) ==
    \E i \in 1..Len(routes) : routes[i].path = rq.path /\ rq.method \in routes[i].methods

\* line 50: call_next returns the downstream response.  GET /metrics runs
\* the metrics() closure; another method on /metrics is refused with 405;
\* any other path answers with a status the application chooses.
CallNextReturns(r, in) ==
    /\ reqs[r].pc = "call_next"
    /\ \E status \in in.statuses :
          LET rq   == reqs[r]
              code == IF IsScrape(rq) THEN 200
                      ELSE IF rq.path = MetricsRoute.path THEN 405
                      ELSE status
              body == IF IsScrape(rq) THEN GenerateLatest(regmode, rq.proc, counter, hist)
                      ELSE NoBody
          IN  reqs' = [reqs EXCEPT ![r].pc = "returned", ![r].status = code, ![r].body = body]
    /\ UNCHANGED <<appvars, counter, hist, now>>

\* line 50 for a scrape in multiprocess mode whose merge meets the shard of
\* worker p unreadable (corrupt, or truncated by a write in progress):
\* generate_latest(registry) at line 216 runs the MultiProcessCollector,
\* which raises on a file it cannot parse; metrics() has no try, so the
\* exception leaves the route and call_next, then dispatch, and the
\* framework's server-error layer answers 500.  No shard is written.
MergeRaises(r, p) ==
    /\ reqs[r].pc = "call_next"
    /\ IsScrape(reqs[r])
    /\ regmode = "multiprocess"
    /\ reqs' = [reqs EXCEPT ![r].pc = "raised", ![r].bad = p, ![r].sent = 500]
    /\ UNCHANGED <<appvars, counter, hist, now>>

\* line 50: call_next raises (an unhandled exception of the application).
\* dispatch has no try: the exception leaves dispatch, and the framework's
\* server-error layer outside the middleware answers 500.
CallNextRaises(r) ==
    /\ reqs[r].pc = "call_next"
    /\ reqs[r].path # MetricsRoute.path
    /\ reqs' = [reqs EXCEPT ![r].pc = "raised", ![r].sent = 500]
    /\ UNCHANGED <<appvars, counter, hist, now>>

\* (mutant) the record reported from a finally block, so also for a call
\* that was cancelled
DisconnectCounted(r) ==
    /\ reqs[r].pc = "call_next"
    /\ reqs' = [reqs EXCEPT ![r].pc = "cancelled"]
    /\ LET rq   == reqs[r]
           info == ResponseInfo(now - rq.start, rq.headers, 499, rq.path, rq.method)
           key  == Labels(SERVICE, info)
       IN  counter' = [counter EXCEPT ![rq.proc] = CounterInc(CounterLabels(@, key), key)]
    /\ UNCHANGED <<appvars, hist, now>>

\* line 50: the client disconnects while call_next is awaited: the call is
\* cancelled and no response is produced
Disconnect(r) ==
    /\ reqs[r].pc = "call_next"
    /\ reqs' = [reqs EXCEPT ![r].pc = "cancelled"]
    /\ UNCHANGED <<appvars, counter, hist, now>>

\* (mutant) request and start time kept on the middleware object, which all
\* calls share: the record is built from the request that arrived last
BuildRecordShared(r) ==
    /\ reqs[r].pc = "returned"
    /\ LET rq   == reqs[r]
           last == reqs[Len(reqs)]
       IN  reqs' = [reqs EXCEPT
                      ![r].info = Some(ResponseInfo(now - last.start, last.headers,
                                                    rq.status, last.path, last.method)),
                      ![r].h = 1,
                      ![r].pc = IF Len(rq.metrics) >= 1 THEN "handler" ELSE "return"]
    /\ UNCHANGED <<appvars, counter, hist, now>>

\* lines 52-67: exec_time and the ResponseInfo
BuildRecord(r) ==
    /\ reqs[r].pc = "returned"
    /\ LET rq == reqs[r]
       IN  reqs' = [reqs EXCEPT
                      ![r].info = Some(ResponseInfo(now - rq.start, rq.headers,
                                                    rq.status, rq.path, rq.method)),
                      ![r].h = 1,
                      ![r].pc = IF Len(rq.metrics) >= 1 THEN "handler" ELSE "return"]
    /\ UNCHANGED <<appvars, counter, hist, now>>

\* (mutant) the counter handler taking effect twice for one record
HttpRequestsTotalTwice(m, info) ==
    LET key == Labels(SERVICE, info)
    IN  CounterInc(CounterInc(CounterLabels(m, key), key), key)

\* (mutant) the counter handler on a metric made anew at each call: only
\* the child of this record is left
HttpRequestsTotalRebuilt(m, info) ==
    LET key == Labels(SERVICE, info)
    IN  (key :> ValueAt(m, key) + 1)

\* the closure http_requests_total(service_name) returns, lines 116-128:
\* METRIC.labels(**labels).inc()
HttpRequestsTotal(m, info) ==
    LET key == Labels(SERVICE, info)
    IN  CounterInc(CounterLabels(m, key), key)

\* (mutant) the latency handler labelling without the endpoint
LatencyNoEndpoint(m, info) ==
    LET key == [Labels(SERVICE, info) EXCEPT !.endpoint = ""]
    IN  HistObserve(HistLabels(m, key), key, info.exec_time)

\* the closure latency(service_name) returns, lines 153-165:
\* METRIC.labels(**labels).observe(info.exec_time)
Latency(m, info) ==
    LET key == Labels(SERVICE, info)
    IN  HistObserve(HistLabels(m, key), key, info.exec_time)

\* lines 69-70: handler(info) for the handler at position h of self.metrics,
\* a synchronous call on the metrics of the worker that runs the request
Handler(r) ==
    /\ reqs[r].pc = "handler"
    /\ LET rq == reqs[r]
       IN  /\ IF rq.metrics[rq.h] = "http_requests_total"
              THEN /\ counter' = [counter EXCEPT ![rq.proc] = HttpRequestsTotal(@, rq.info[1])]
                   /\ UNCHANGED hist
              ELSE /\ hist' = [hist EXCEPT ![rq.proc] = Latency(@, rq.info[1])]
                   /\ UNCHANGED counter
           /\ reqs' = [reqs EXCEPT
                         ![r].log = Append(@, rq.metrics[rq.h]),
                         ![r].h = @ + 1,
                         ![r].pc = IF rq.h < Len(rq.metrics) THEN "handler" ELSE "return"]
    /\ UNCHANGED <<appvars, now>>

\* (mutant) each handler call guarded on its own: the failure is swallowed
\* and the loop goes on to the next handler
HandlerRaisesIsolated(r) ==
    /\ reqs[r].pc = "handler"
    /\ LET rq == reqs[r]
       IN  reqs' = [reqs EXCEPT
                      ![r].failed = rq.h,
                      ![r].h = @ + 1,
                      ![r].pc = IF rq.h < Len(rq.metrics) THEN "handler" ELSE "return"]
    /\ UNCHANGED <<appvars, counter, hist, now>>

\* lines 69-70 with a handler that raises: the for loop has no try, so the
\* exception ends the loop and leaves dispatch, and the framework's
\* server-error layer answers 500.  The handler fails in labels(), before
\* the child exists, or in inc()/observe(), after labels() has created it.
HandlerRaises(r) ==
    /\ reqs[r].pc = "handler"
    /\ LET rq  == reqs[r]
           key == Labels(SERVICE, rq.info[1])
       IN  /\ \E created \in BOOLEAN :
                 IF ~created THEN UNCHANGED <<counter, hist>>
                 ELSE IF rq.metrics[rq.h] = "http_requests_total"
                 THEN /\ counter' = [counter EXCEPT ![rq.proc] = CounterLabels(@, key)]
                      /\ UNCHANGED hist
                 ELSE /\ hist' = [hist EXCEPT ![rq.proc] = HistLabels(@, key)]
                      /\ UNCHANGED counter
           /\ reqs' = [reqs EXCEPT
                         ![r].failed = rq.h,
                         ![r].pc = "handler_raised",
                         ![r].sent = 500]
    /\ UNCHANGED <<appvars, now>>

\* (mutant) dispatch answering with a response of its own making
ReturnFresh(r) ==
    /\ reqs[r].pc = "return"
    /\ reqs' = [reqs EXCEPT ![r].pc = "done", ![r].sent = 200, ![r].body = NoBody]
    /\ UNCHANGED <<appvars, counter, hist, now>>

\* line 71: return response
Return(r) ==
    /\ reqs[r].pc = "return"
    /\ reqs' = [reqs EXCEPT ![r].pc = "done", ![r].sent = reqs[r].status]
    /\ UNCHANGED <<appvars, counter, hist, now>>

\* time passes while a downstream call is awaited
Tick(in) ==
    /\ \E r \in 1..Len(reqs) : reqs[r].pc = "call_next"
    /\ \E t \in in.times : t > now /\ now' = t
    /\ UNCHANGED <<appvars, counter, hist, reqs>>

Step(in) ==
    \/ InstrumentApp
    \/ Dispatch(in)
    \/ \E r \in 1..Len(reqs) : CallNextReturns(r, in)
    \/ \E r \in 1..Len(reqs) : CallNextRaises(r)
    \/ \E r \in 1..Len(reqs) : Disconnect(r)
    \/ \E r \in 1..Len(reqs) : BuildRecord(r)
    \/ \E r \in 1..Len(reqs) : Handler(r)
    \/ \E r \in 1..Len(reqs) : Return(r)
    \/ Tick(in)

Next == Step(MainInputs)

Spec == Init /\ [][Next]_vars

\* the steps of Step but the clock's: the records are checked at one reading
NextRecord ==
    \/ InstrumentApp
    \/ Dispatch(RecordInputs)
    \/ \E r \in 1..Len(reqs) : CallNextReturns(r, RecordInputs)
    \/ \E r \in 1..Len(reqs) : CallNextRaises(r)
    \/ \E r \in 1..Len(reqs) : Disconnect(r)
    \/ \E r \in 1..Len(reqs) : BuildRecord(r)
    \/ \E r \in 1..Len(reqs) : Handler(r)
    \/ \E r \in 1..Len(reqs) : Return(r)

SpecRecord == Init /\ [][NextRecord]_vars

\* requests whose handlers may raise, and scrapes
NextFault ==
    \/ InstrumentApp
    \/ Dispatch(FaultInputs)
    \/ \E r \in 1..Len(reqs) : CallNextReturns(r, FaultInputs)
    \/ \E r \in 1..Len(reqs) : BuildRecord(r)
    \/ \E r \in 1..Len(reqs) : Handler(r)
    \/ \E r \in 1..Len(reqs) : HandlerRaises(r)
    \/ \E r \in 1..Len(reqs) : Return(r)

SpecFault == Init /\ [][NextFault]_vars

\* requests that differ in every field of the record, in flight together
NextIsolation ==
    \/ InstrumentApp
    \/ Dispatch(IsolationInputs)
    \/ \E r \in 1..Len(reqs) : CallNextReturns(r, IsolationInputs)
    \/ \E r \in 1..Len(reqs) : BuildRecord(r)
    \/ \E r \in 1..Len(reqs) : Handler(r)
    \/ \E r \in 1..Len(reqs) : Return(r)
    \/ Tick(IsolationInputs)

SpecIsolation == Init /\ [][NextIsolation]_vars

----------------------------------------------------------------------------
(* Scrapes over shards that earlier traffic has filled *)

\* the records of the earlier requests: 0.2 s answered 200, 0.7 s answered 404
EarlierInfos ==
    <<ResponseInfo(200, NoHeaders, 200, "/items", GET),
      ResponseInfo(700, NoHeaders, 404, "/items", GET)>>

\* how many earlier requests of each kind a worker has handled
ShardCounts == {0, 1, 3, 5}

RECURSIVE CounterAfter(_, _, _)
\* a counter shard after n more requests with record info
CounterAfter(m, info, n) ==
    IF n = 0 THEN m ELSE CounterAfter(HttpRequestsTotal(m, info), info, n - 1)

RECURSIVE HistAfter(_, _, _)
\* a histogram shard after n more requests with record info
HistAfter(m, info, n) ==
    IF n = 0 THEN m ELSE HistAfter(Latency(m, info), info, n - 1)

\* the app instrumented in multiprocess mode, every worker's shard holding
\* what its completed requests left there
InitMerge ==
    /\ pmd = "dir"
    /\ setup = "ok"
    /\ err = "none"
    /\ middleware = <<METRIC_HANDLERS>>
    /\ routes = <<MetricsRoute>>
    /\ regmode = GetRegistry("dir")
    /\ collectors = {MetricName(METRIC_HANDLERS[i]) : i \in 1..Len(METRIC_HANDLERS)}
    /\ \E n \in [Procs \X (1..Len(EarlierInfos)) -> ShardCounts] :
          /\ counter = [p \in Procs |->
                CounterAfter(CounterAfter(EmptyMetric, EarlierInfos[1], n[<<p, 1>>]),
                             EarlierInfos[2], n[<<p, 2>>])]
          /\ hist = [p \in Procs |->
                HistAfter(HistAfter(EmptyMetric, EarlierInfos[1], n[<<p, 1>>]),
                          EarlierInfos[2], n[<<p, 2>>])]
    /\ reqs = <<>>
    /\ now = 0

NextMerge ==
    \/ Dispatch(MergeInputs)
    \/ \E r \in 1..Len(reqs) : CallNextReturns(r, MergeInputs)
    \/ \E r \in 1..Len(reqs) : Disconnect(r)
    \/ \E r \in 1..Len(reqs) : BuildRecord(r)
    \/ \E r \in 1..Len(reqs) : Handler(r)
    \/ \E r \in 1..Len(reqs) : Return(r)
    \/ Tick(MergeInputs)

SpecMerge == InitMerge /\ [][NextMerge]_vars

\* scrapes over shards of which one may be unreadable when it is read
NextShardFault ==
    \/ Dispatch(MergeInputs)
    \/ \E r \in 1..Len(reqs) : CallNextReturns(r, MergeInputs)
    \/ \E r \in 1..Len(reqs) : Disconnect(r)
    \/ \E r \in 1..Len(reqs) : BuildRecord(r)
    \/ \E r \in 1..Len(reqs) : Handler(r)
    \/ \E r \in 1..Len(reqs) : Return(r)
    \/ Tick(MergeInputs)
    \/ \E r \in 1..Len(reqs), p \in Procs : MergeRaises(r, p)

SpecShardFault == InitMerge /\ [][NextShardFault]_vars

----------------------------------------------------------------------------
(* Vocabulary of the properties *)

ReqIds == 1..Len(reqs)

RECURSIVE SumMap(_, _)
\* the sum of m[t] over the keys t in D
SumMap(m, D) ==
    IF D = {} THEN 0
    ELSE LET t == CHOOSE x \in D : TRUE IN m[t] + SumMap(m, D \ {t})

\* requests for which handler name has run
Observed(name) == {r \in ReqIds : \E i \in 1..Len(reqs[r].log) : reqs[r].log[i] = name}

\* the sum of http_requests_total over all label-tuples of all workers
CounterTotal == SumMap([p \in Procs |-> SumMap(counter[p], DOMAIN counter[p])], Procs)

\* observations in a histogram child
CellCount(cell) == Accumulate(cell.buckets, NumBuckets)

\* the sum of the histogram counts over all label-tuples of all workers
HistTotal ==
    SumMap([p \in Procs |->
               SumMap([t \in DOMAIN hist[p] |-> CellCount(hist[p][t])], DOMAIN hist[p])],
           Procs)

\* requests whose dispatch call returned the response
Completed == {r \in ReqIds : reqs[r].pc = "done"}

Quiescent == \A r \in ReqIds : reqs[r].pc \in Finished

----------------------------------------------------------------------------
(* C1 *)

\* C1: a request whose call_next returned has one ResponseInfo and, once
\* dispatch returns, each registered handler has run exactly once with it, in
\* order; no handler runs for a request without a response; so the counter
\* total and the histogram count total each equal the number of requests whose
\* handler has run, and with K requests completed and none in flight both are K.
C1_OneRecordEachHandlerOnce ==
    /\ \A r \in ReqIds :
          /\ reqs[r].pc \in {"return", "done"} =>
                reqs[r].info # NoInfo /\ reqs[r].log = METRIC_HANDLERS
          /\ reqs[r].pc \in {"call_next", "returned", "raised", "cancelled"} =>
                reqs[r].info = NoInfo /\ reqs[r].log = <<>>
          /\ \A i, j \in 1..Len(reqs[r].log) : i # j => reqs[r].log[i] # reqs[r].log[j]
    /\ CounterTotal = Cardinality(Observed("http_requests_total"))
    /\ HistTotal = Cardinality(Observed("latency"))
    /\ Quiescent => /\ CounterTotal = Cardinality(Completed)
                    /\ HistTotal = Cardinality(Completed)

\* two requests completed, both metrics grown by two
C1_Witness ==
    /\ Cardinality(Completed) = 2
    /\ Quiescent
    /\ CounterTotal = 2
    /\ HistTotal = 2

----------------------------------------------------------------------------
(* C2 *)

\* the label-tuple request r is observed at
TupleOf(r) == Labels(SERVICE, reqs[r].info[1])

\* requests on worker p whose counter handler has run at label-tuple t
CountedAt(p, t) ==
    {r \in Observed("http_requests_total") : reqs[r].proc = p /\ TupleOf(r) = t}

\* C2: under every interleaving, the counter value at a label-tuple is the
\* number of requests whose counter handler has run at that tuple: N
\* concurrent requests with identical labels add exactly N, none is lost.
C2_NoLostUpdate ==
    \A p \in Procs :
        /\ \A t \in DOMAIN counter[p] : counter[p][t] = Cardinality(CountedAt(p, t))
        /\ \A r \in Observed("http_requests_total") :
              reqs[r].proc = p => TupleOf(r) \in DOMAIN counter[p]

\* two requests with identical labels on one worker, the second counted while
\* the first is still between its two handlers, and the value is 2
C2_Witness ==
    \E r1, r2 \in ReqIds :
        /\ r1 # r2
        /\ reqs[r1].pc = "handler" /\ reqs[r1].h = 2
        /\ reqs[r2].pc = "handler" /\ reqs[r2].h = 2
        /\ reqs[r1].proc = reqs[r2].proc
        /\ TupleOf(r1) = TupleOf(r2)
        /\ counter[reqs[r1].proc][TupleOf(r1)] = 2

----------------------------------------------------------------------------
(* C3 *)

\* C3: no scrape of /metrics is counted: http_requests_total has no child
\* with endpoint /metrics, and no handler runs for a request routed to the
\* metrics() closure.
C3_ScrapeNeverCounted ==
    /\ \A p \in Procs : \A t \in DOMAIN counter[p] : t.endpoint # MetricsRoute.path
    /\ \A r \in ReqIds : IsScrape(reqs[r]) => reqs[r].log = <<>>

----------------------------------------------------------------------------
(* C4 *)

\* C4: every request for which a response is produced, a response converted
\* from an exception of call_next included, has exactly one record delivered
\* to the handlers; only a request without any response is left unreported.
C4_EveryResponseReported ==
    \A r \in ReqIds :
        reqs[r].sent # 0 => reqs[r].info # NoInfo /\ reqs[r].log = METRIC_HANDLERS

----------------------------------------------------------------------------
(* C5 *)

\* request r gets its response from the metrics() closure in this step
ScrapeAnswered(r) ==
    /\ r \in ReqIds
    /\ reqs[r].pc = "call_next"
    /\ IsScrape(reqs[r])
    /\ reqs'[r].pc = "returned"

\* label-tuples some counter shard holds
CounterTuples == UNION {DOMAIN counter[p] : p \in Procs}

\* the value shard p holds at t, 0 when it lacks t
ShardValue(p, t) == IF t \in DOMAIN counter[p] THEN counter[p][t] ELSE 0

\* C5: in multiprocess mode the payload of a scrape holds exactly the
\* label-tuples some shard holds, each with the sum over all shards of the
\* shard's value there, a shard lacking the tuple counting 0; so a tuple of
\* one shard only is a series of its own with that shard's value.
C5_MergedCounterIsShardSum ==
    [][\A r \in ReqIds :
          (ScrapeAnswered(r) /\ regmode = "multiprocess") =>
              /\ DOMAIN reqs'[r].body.counter = CounterTuples
              /\ \A t \in CounterTuples :
                    reqs'[r].body.counter[t] =
                        SumMap([p \in Procs |-> ShardValue(p, t)], Procs)]_vars

\* the label-tuples of the two kinds of earlier request
TupleA == Labels(SERVICE, EarlierInfos[1])

TupleB == Labels(SERVICE, EarlierInfos[2])

\* a scrape just answered over a shard with 3 and a shard with 5 at one
\* tuple reports 8 there; the other tuple, held by one shard only, is
\* reported apart with that shard's value
C5_Witness ==
    \E r \in ReqIds : \E p, q \in Procs :
        /\ reqs[r].pc = "returned"
        /\ p # q
        /\ ShardValue(p, TupleA) = 3
        /\ ShardValue(q, TupleA) = 5
        /\ reqs[r].body.counter[TupleA] = 8
        /\ TupleB \in DOMAIN counter[p]
        /\ TupleB \notin DOMAIN counter[q]
        /\ counter[p][TupleB] = 1
        /\ reqs[r].body.counter[TupleB] = 1

----------------------------------------------------------------------------
(* C6 *)

\* label-tuples some histogram shard holds
HistTuples == UNION {DOMAIN hist[p] : p \in Procs}

\* observations of shard p at t that fell in buckets 1..i, 0 when it lacks t
ShardCumulative(p, t, i) ==
    IF t \in DOMAIN hist[p] THEN SumMap(hist[p][t].buckets, 1..i) ELSE 0

\* the sum of the observations of shard p at t, 0 when it lacks t
ShardSum(p, t) == IF t \in DOMAIN hist[p] THEN hist[p][t].sum ELSE 0

\* C6: in multiprocess mode the histogram of a scrape's payload is, at each
\* label-tuple, the shard-wise sum: every cumulative bucket count, the total
\* count and the sum are the sums of the per-shard values.
C6_MergedHistogramIsShardSum ==
    [][\A r \in ReqIds :
          (ScrapeAnswered(r) /\ regmode = "multiprocess") =>
              /\ DOMAIN reqs'[r].body.hist = HistTuples
              /\ \A t \in HistTuples :
                    LET merged == reqs'[r].body.hist[t]
                    IN  /\ \A i \in 1..NumBuckets :
                              merged.bucket[i] =
                                  SumMap([p \in Procs |-> ShardCumulative(p, t, i)], Procs)
                        /\ merged.count =
                              SumMap([p \in Procs |-> ShardCumulative(p, t, NumBuckets)], Procs)
                        /\ merged.sum = SumMap([p \in Procs |-> ShardSum(p, t)], Procs)]_vars

\* the position of an upper bound, in milliseconds, among the buckets
BucketIndex(bound) == CHOOSE i \in 1..Len(UpperBounds) : UpperBounds[i] = bound

\* two shards, each with one observation of 0.2 s: the scrape reports 0 up to
\* 0.1 s, 2 up to 0.5 s and up to 1 s, count 2 and sum 0.4 s
C6_Witness ==
    \E r \in ReqIds :
        /\ reqs[r].pc = "returned"
        /\ \A p \in Procs : TupleA \in DOMAIN hist[p] /\ CellCount(hist[p][TupleA]) = 1
        /\ \A p \in Procs : hist[p][TupleA].sum = 200
        /\ reqs[r].body.hist[TupleA].bucket[BucketIndex(100)] = 0
        /\ reqs[r].body.hist[TupleA].bucket[BucketIndex(500)] = 2
        /\ reqs[r].body.hist[TupleA].bucket[BucketIndex(1000)] = 2
        /\ reqs[r].body.hist[TupleA].count = 2
        /\ reqs[r].body.hist[TupleA].sum = 400

----------------------------------------------------------------------------
(* C7 *)

\* C7: the registry mode is fixed by instrument_app from the directory
\* setting: none before the call; absent gives the default registry; an
\* existing directory gives the multiprocess registry; a path that is no
\* directory makes instrument_app raise the configuration error, with no
\* /metrics route registered and no request served.
C7_RegistryModeFromSetting ==
    /\ setup = "new" => regmode = "unset" /\ routes = <<>>
    /\ setup = "ok" => /\ pmd \in {"absent", "dir"}
                       /\ \E i \in 1..Len(routes) : routes[i] = MetricsRoute
    /\ (pmd = "absent" /\ setup # "new") => regmode = "default"
    /\ (pmd = "dir" /\ setup # "new") => regmode = "multiprocess"
    /\ (pmd = "notdir" /\ setup # "new") =>
          /\ setup = "raised"
          /\ err = "config"
          /\ regmode = "unset"
          /\ routes = <<>>
          /\ reqs = <<>>
    /\ err = "config" => pmd = "notdir"

\* instrument_app has raised the configuration error
C7_Witness ==
    /\ pmd = "notdir"
    /\ setup = "raised"
    /\ err = "config"
    /\ routes = <<>>

----------------------------------------------------------------------------
(* C8 *)

\* requests for which the ResponseInfo has been built
Recorded == {r \in ReqIds : reqs[r].info # NoInfo}

\* the first decimal digit of n >= 1
LeadingDigit(n) ==
    CHOOSE d \in 1..9 : \E k \in 0..5 : d * 10^k <= n /\ n < (d + 1) * 10^k

\* C8: in every record the middleware builds, status_code is the status of
\* the response and status_group is the first decimal digit of that status
\* followed by "xx"; the status_group label of every series agrees with the
\* first digit of its status_code label.
C8_StatusGroupIsLeadingDigit ==
    /\ \A r \in Recorded :
          LET info == reqs[r].info[1]
          IN  /\ info.status_code = reqs[r].status
              /\ info.status_group = <<Digits[LeadingDigit(info.status_code) + 1], "x", "x">>
    /\ \A p \in Procs : \A t \in DOMAIN counter[p] \cup DOMAIN hist[p] :
          t.status_group = <<t.status_code[1], "x", "x">>

\* a 404 recorded as 4xx and a 204 recorded as 2xx
C8_Witness ==
    \E r1, r2 \in Recorded :
        /\ reqs[r1].status = 404 /\ reqs[r1].info[1].status_group = <<"4", "x", "x">>
        /\ reqs[r2].status = 204 /\ reqs[r2].info[1].status_group = <<"2", "x", "x">>
        /\ reqs[r1].pc = "done" /\ reqs[r2].pc = "done"

----------------------------------------------------------------------------
(* C9 *)

\* requests that carry no uid header
WithoutUid == {r \in ReqIds : "uid" \notin DOMAIN reqs[r].headers}

\* the label-tuple a request is to be observed at, from the request and its
\* response: the uid header, or the string None when the header is absent
ExpectedTuple(r) ==
    [service_name |-> SERVICE,
     status_code  |-> StrInt(reqs[r].status),
     status_group |-> reqs[r].info[1].status_group,
     endpoint     |-> reqs[r].path,
     method       |-> reqs[r].info[1].method,
     uid          |-> IF r \in WithoutUid THEN "None" ELSE reqs[r].headers["uid"]]

\* C9: a request without a uid header passes both handlers, and each lands it
\* on the series whose uid label is the string None, the same for every such
\* request: that series exists and holds one count per request observed there.
C9_AbsentUidIsSentinel ==
    \A r \in WithoutUid :
        LET p == reqs[r].proc
        IN  /\ reqs[r].pc \in {"return", "done"} => reqs[r].log = METRIC_HANDLERS
            /\ r \in Observed("http_requests_total") =>
                  /\ ExpectedTuple(r) \in DOMAIN counter[p]
                  /\ counter[p][ExpectedTuple(r)] =
                        Cardinality({q \in Observed("http_requests_total") :
                                        reqs[q].proc = p /\ ExpectedTuple(q) = ExpectedTuple(r)})
            /\ r \in Observed("latency") =>
                  /\ ExpectedTuple(r) \in DOMAIN hist[p]
                  /\ CellCount(hist[p][ExpectedTuple(r)]) =
                        Cardinality({q \in Observed("latency") :
                                        reqs[q].proc = p /\ ExpectedTuple(q) = ExpectedTuple(r)})

\* two requests without the header, completed, share one series that holds 2,
\* apart from the series of a uid
C9_Witness ==
    \E r1, r2 \in WithoutUid :
        /\ r1 # r2
        /\ reqs[r1].pc = "done" /\ reqs[r2].pc = "done"
        /\ ExpectedTuple(r1) = ExpectedTuple(r2)
        /\ ExpectedTuple(r1).uid = "None"
        /\ counter[reqs[r1].proc][ExpectedTuple(r1)] = 2
        /\ CellCount(hist[reqs[r1].proc][ExpectedTuple(r1)]) = 2

----------------------------------------------------------------------------
(* C10 *)

\* whether u is character c upper-cased
IsUpperOf(u, c) ==
    IF \E i \in 1..Len(LowerCase) : LowerCase[i] = c
    THEN \E i \in 1..Len(LowerCase) : LowerCase[i] = c /\ UpperCase[i] = u
    ELSE u = c

\* whether string m is string s upper-cased
IsUpperCased(m, s) == Len(m) = Len(s) /\ \A i \in 1..Len(s) : IsUpperOf(m[i], s[i])

\* C10: the method of every record is the request's method upper-cased,
\* whatever its case on arrival, and both handlers use that value as the
\* method label of the series they observe.
C10_MethodUpperCased ==
    /\ \A r \in Recorded : IsUpperCased(reqs[r].info[1].method, reqs[r].method)
    /\ \A r \in Observed("http_requests_total") :
          \E t \in DOMAIN counter[reqs[r].proc] :
              /\ IsUpperCased(t.method, reqs[r].method)
              /\ t.endpoint = reqs[r].path
              /\ t.status_code = StrInt(reqs[r].status)
    /\ \A r \in Observed("latency") :
          \E t \in DOMAIN hist[reqs[r].proc] :
              /\ IsUpperCased(t.method, reqs[r].method)
              /\ t.endpoint = reqs[r].path
              /\ t.status_code = StrInt(reqs[r].status)
    /\ \A p \in Procs : \A t \in DOMAIN counter[p] \cup DOMAIN hist[p] :
          \A i \in 1..Len(t.method) : \A k \in 1..Len(LowerCase) : t.method[i] # LowerCase[k]

\* get and GET, both completed, are counted on the one series of method GET
C10_Witness ==
    \E r1, r2 \in Completed :
        /\ reqs[r1].method = <<"g", "e", "t">>
        /\ reqs[r2].method = GET
        /\ reqs[r1].info[1].method = GET
        /\ TupleOf(r1) = TupleOf(r2)
        /\ counter[reqs[r1].proc][TupleOf(r1)] = 2

----------------------------------------------------------------------------
(* C11: dispatch hands back the response of call_next untouched *)

\* what the record and the handlers could touch: the response's status and
\* body, the request's path, method and headers
Exchange(rq) == <<rq.status, rq.body, rq.path, rq.method, rq.headers>>

\* C11: from the moment call_next has returned, no step of the request
\* (building the record, a handler call, the return) changes the response or
\* the request, and the status dispatch returns is the one call_next returned.
C11_ResponseReturnedUntouched ==
    [][\A r \in ReqIds :
          reqs[r].pc \in {"returned", "handler", "return"}
          => /\ Exchange(reqs'[r]) = Exchange(reqs[r])
             /\ reqs'[r].pc = "done" => reqs'[r].sent = reqs[r].status]_vars

\* a request answered 404 whose handlers have both run and whose dispatch
\* returned that 404
C11_Witness ==
    \E r \in Completed :
        /\ reqs[r].status = 404
        /\ reqs[r].sent = 404
        /\ reqs[r].log = METRIC_HANDLERS

----------------------------------------------------------------------------
(* C12: a cancelled request leaves the metrics alone *)

\* C12: the steps a request takes up to its cancellation (its arrival and
\* the cancellation of the awaited call_next) change no counter or histogram
\* cell, and a cancelled request has no record and no handler call.
C12_CancelledLeavesNoTrace ==
    [][/\ Len(reqs') > Len(reqs) => counter' = counter /\ hist' = hist
       /\ \A r \in ReqIds :
             reqs'[r].pc = "cancelled"
             => /\ reqs'[r].info = NoInfo
                /\ reqs'[r].log = <<>>
                /\ reqs[r].pc # "cancelled" => counter' = counter /\ hist' = hist]_vars

\* a request cancelled on the worker and path where another request was
\* counted: the cell holds the other request alone
C12_Witness ==
    \E r, r2 \in ReqIds :
        /\ reqs[r].pc = "cancelled"
        /\ r2 \in Completed
        /\ reqs[r].proc = reqs[r2].proc
        /\ reqs[r].path = reqs[r2].path
        /\ CounterTotal = 1
        /\ HistTotal = 1

----------------------------------------------------------------------------
(* C13: a handler that raises *)

\* C13: a request one of whose handlers raised has left dispatch by that
\* exception (no response returned, the framework answers 500); exactly the
\* handlers registered before the failing one have run for it; and what they
\* applied is still there: every http_requests_total cell holds the number
\* of requests counted at it, those whose latency handler failed included.
C13_HandlerFailurePropagates ==
    /\ \A r \in ReqIds :
          reqs[r].failed # 0
          => /\ reqs[r].pc = "handler_raised"
             /\ reqs[r].sent = 500
             /\ reqs[r].log = SubSeq(reqs[r].metrics, 1, reqs[r].failed - 1)
             /\ reqs[r].failed >= 2 => TupleOf(r) \in DOMAIN counter[reqs[r].proc]
    /\ \A p \in Procs :
          \A t \in DOMAIN counter[p] : counter[p][t] = Cardinality(CountedAt(p, t))

\* the histogram handler failed for a request answered 404: the request is
\* counted once and the histogram has no observation
C13_Witness ==
    \E r \in ReqIds :
        /\ reqs[r].failed = 2
        /\ reqs[r].status = 404
        /\ reqs[r].log = <<"http_requests_total">>
        /\ counter[reqs[r].proc][TupleOf(r)] = 1
        /\ HistTotal = 0

----------------------------------------------------------------------------
(* C14: the order of the handler calls *)

\* C14: the handler calls of a request are http_requests_total, then
\* latency; a handler is called only for a request whose call_next has
\* returned and whose record is built; the record stays the one built, so
\* both handlers act on the same label-tuple.
C14_HandlersInRegistrationOrder ==
    [][\A r \in ReqIds :
          /\ reqs'[r].log \in {<<>>, <<"http_requests_total">>,
                               <<"http_requests_total", "latency">>}
          /\ reqs'[r].log # reqs[r].log
             => /\ reqs[r].pc = "handler"
                /\ reqs[r].status # 0
                /\ reqs[r].info # NoInfo
          /\ reqs[r].info # NoInfo => reqs'[r].info = reqs[r].info
          /\ Len(reqs'[r].log) = 2
             => LET t == Labels(SERVICE, reqs'[r].info[1])
                IN  /\ t \in DOMAIN counter'[reqs[r].proc]
                    /\ t \in DOMAIN hist'[reqs[r].proc]]_vars

\* a request between its two handler calls while another request, on the
\* same worker, is still awaiting call_next
C14_Witness ==
    \E r, r2 \in ReqIds :
        /\ reqs[r].log = <<"http_requests_total">>
        /\ reqs[r].pc = "handler"
        /\ reqs[r2].pc = "call_next"
        /\ reqs[r2].proc = reqs[r].proc

----------------------------------------------------------------------------
(* C15: instrument_app failing on the multiprocess directory *)

\* C15: once instrument_app has raised the configuration error, the app has
\* no telemetry middleware and no /metrics route and the process-wide
\* registry holds no metric: app and registry are as before the call.
C15_FailedSetupLeavesNothing ==
    (setup = "raised" /\ err = "config")
    => /\ middleware = <<>>
       /\ routes = <<>>
       /\ collectors = {}

----------------------------------------------------------------------------
(* C16: http_requests_total cells only appear and grow *)

\* C16: from one state to the next every http_requests_total cell that
\* exists stays and does not decrease; a cell comes into being only by a
\* handler call of a request with that label-tuple, at value 1; no cell
\* holds 0.
C16_CounterCellsMonotone ==
    [][\A p \in Procs :
          /\ \A t \in DOMAIN counter[p] :
                /\ t \in DOMAIN counter'[p]
                /\ counter'[p][t] >= counter[p][t]
          /\ \A t \in DOMAIN counter'[p] :
                /\ counter'[p][t] >= 1
                /\ t \notin DOMAIN counter[p]
                   => /\ counter'[p][t] = 1
                      /\ \E r \in ReqIds :
                            /\ reqs[r].pc = "handler"
                            /\ reqs[r].proc = p
                            /\ TupleOf(r) = t
                            /\ Len(reqs'[r].log) = Len(reqs[r].log) + 1]_vars

\* a worker holding two cells: the elder one outlived the creation of the
\* other
C16_Witness ==
    \E p \in Procs :
        /\ Cardinality(DOMAIN counter[p]) = 2
        /\ \A t \in DOMAIN counter[p] : counter[p][t] = 1

----------------------------------------------------------------------------
(* C17: instrument_app called a second time *)

\* a call of instrument_app on an app already instrumented: the only step
\* that changes the setup once it is "ok"
SecondCall == setup = "ok" /\ appvars' # appvars

\* C17 as stated: the second call completes, and leaves two middleware
\* layers and two /metrics routes.
C17_SecondCallDoubleRegisters ==
    [][SecondCall => /\ setup' = "ok"
                     /\ Len(middleware') = 2
                     /\ Len(routes') = 2]_vars

\* C17, amended: the second call does not complete: constructing
\* http_requests_total again raises the registry's duplicate error at line
\* 200, before add_middleware and before the route, so the app keeps one
\* middleware layer and one /metrics route and the registry its two metrics.
C17_SecondCallRaisesDuplicate ==
    [][SecondCall => /\ setup' = "raised"
                     /\ err' = "duplicate"
                     /\ middleware' = middleware /\ Len(middleware') = 1
                     /\ routes' = routes /\ Len(routes') = 1
                     /\ collectors' = collectors
                     /\ regmode' = regmode]_vars

\* the app after a second call
C17_Witness ==
    /\ setup = "raised"
    /\ err = "duplicate"
    /\ Len(middleware) = 1
    /\ Len(routes) = 1

----------------------------------------------------------------------------
(* C18: a scrape over an unreadable shard *)

\* C18: a scrape whose merge met an unreadable shard does not fail: it is
\* not left by an exception and the client is not answered 500.
C18_BadShardIsSkipped ==
    \A r \in ReqIds :
        reqs[r].bad # 0 => /\ reqs[r].pc # "raised"
                           /\ reqs[r].sent # 500

----------------------------------------------------------------------------
(* C19: the counter against the histogram's count *)

\* observations of the histogram child of worker p at label-tuple t
HistCountAt(p, t) == IF t \in DOMAIN hist[p] THEN CellCount(hist[p][t]) ELSE 0

\* requests of worker p with label-tuple t that are between their two
\* handler calls
Between(p, t) ==
    {r \in ReqIds : /\ reqs[r].proc = p
                    /\ reqs[r].pc = "handler"
                    /\ reqs[r].log = <<"http_requests_total">>
                    /\ TupleOf(r) = t}

\* the count a scrape payload reports for the histogram at label-tuple t
ExportedCount(body, t) == IF t \in DOMAIN body.hist THEN body.hist[t].count ELSE 0

\* requests of worker p with label-tuple t whose latency handler raised
\* after their http_requests_total handler had counted them
CountedOnly(p, t) ==
    {r \in ReqIds : /\ reqs[r].proc = p
                    /\ reqs[r].failed = 2
                    /\ TupleOf(r) = t}

NoHandlerFailed == \A r \in ReqIds : reqs[r].failed = 0

----------------------------------------------------------------------------
(* C20: each record comes from its own request and response *)

\* the label-tuple of request r, from r's own request and response
OwnTuple(r) ==
    [service_name |-> SERVICE,
     status_code  |-> StrInt(reqs[r].status),
     status_group |-> StatusGroup(reqs[r].status),
     endpoint     |-> reqs[r].path,
     method       |-> Upper(reqs[r].method),
     uid          |-> StrOpt(HeadersGet(reqs[r].headers, "uid"))]

\* C20: whatever other requests are in flight, the record built for request
\* r holds r's headers, path and method, the status of r's response and the
\* time elapsed since r's own start; and a handler call of r changes the
\* metrics at r's own label-tuple only, the histogram's sum by r's own
\* exec_time.
C20_RecordFromOwnRequest ==
    [][\A r \in ReqIds :
          LET p == reqs[r].proc
              t == OwnTuple(r)
          IN  /\ (reqs[r].info = NoInfo /\ reqs'[r].info # NoInfo)
                 => reqs'[r].info[1] = ResponseInfo(now - reqs[r].start, reqs[r].headers,
                                                    reqs[r].status, reqs[r].path,
                                                    reqs[r].method)
              /\ reqs'[r].log # reqs[r].log
                 => /\ \A u \in (DOMAIN counter'[p] \cup DOMAIN hist'[p]) \ {t} :
                          /\ ValueAt(counter'[p], u) = ValueAt(counter[p], u)
                          /\ HistAt(hist'[p], u) = HistAt(hist[p], u)
                    /\ ValueAt(counter'[p], t) + CellCount(HistAt(hist'[p], t))
                          = ValueAt(counter[p], t) + CellCount(HistAt(hist[p], t)) + 1
                    /\ HistAt(hist'[p], t) # HistAt(hist[p], t)
                       => HistAt(hist'[p], t).sum
                             = HistAt(hist[p], t).sum + (reqs[r].info[1].exec_time)]_vars

\* two requests between their handler calls at once, one arrived at 0 with
\* a uid and answered 404, the other arrived at 200 without uid and answered
\* 200, each with its own record
C20_Witness ==
    \E r1, r2 \in Recorded :
        /\ reqs[r1].pc = "handler" /\ reqs[r2].pc = "handler"
        /\ reqs[r1].start = 0 /\ reqs[r2].start = 200
        /\ reqs[r1].info[1].exec_time = 200 /\ reqs[r2].info[1].exec_time = 0
        /\ reqs[r1].info[1].status_code = 404 /\ reqs[r2].info[1].status_code = 200
        /\ reqs[r1].info[1].headers = [uid |-> "u1"] /\ reqs[r2].info[1].headers = NoHeaders
        /\ reqs[r1].info[1].endpoint = "/items" /\ reqs[r2].info[1].endpoint = "/orders"

====
